---- MODULE Spec2Model ----
(***************************************************************************)
(* netparser: the upload handler (app.py process_files), the NX-OS log     *)
(* splitter (logic.py execute_split), the per-device worker                *)
(* (logic.py process_single_hostname), and the dispatcher / aggregator     *)
(* (logic.py execute_main).                                                *)
(*                                                                         *)
(* Three specifications share the variables below:                         *)
(*   Spec       one upload session, from the saved uploads to the redirect *)
(*   SpecAgg    the aggregation stage of execute_main over drawn artifacts *)
(*   SpecBuild  the row loop of process_single_hostname over drawn tables  *)
(***************************************************************************)
EXTENDS Integers, Sequences, FiniteSets, TLC

\* ---------------------------------------------------------------- bounds
MaxFiles == 2
MaxMissing == 2
NumWorkers == 2
MaxSessionRows == 1
MaxRows == 2
MaxSheets == 2
MaxAggRows == 3
MaxRecordRows == 1
MaxExtraLines == 2

\* ------------------------------------------------------------ vocabulary
Names == {"A", "B"}

ALLOWED_EXTENSIONS == {"txt", "log"}

UploadExtensions == ALLOWED_EXTENSIONS \cup {"pdf"}

required_commands ==
    << "show interface description", "show interface status",
       "show interface trunk", "show port-channel summary", "show ip arp",
       "show mac address-table", "show inventory", "show cdp neighbors",
       "show lldp neighbors" >>

RequiredSet == {required_commands[i] : i \in DOMAIN required_commands}

\* Python's None, and pandas' NaN (what read_excel gives for an empty cell).
None == "None"
NaN == "NaN"

\* ------------------------------------------------------- generic helpers
Range(s) == {s[i] : i \in DOMAIN s}

RECURSIVE Perms(_)
Perms(S) ==
    IF S = {} THEN {<< >>}
    ELSE UNION {{<<x>> \o p : p \in Perms(S \ {x})} : x \in S}

\* The sequences over S of length at most n.
RECURSIVE SeqsUpTo(_, _)
SeqsUpTo(S, n) ==
    IF n = 0 THEN {<< >>}
    ELSE LET shorter == SeqsUpTo(S, n - 1)
         IN  shorter \cup {Append(q, x) : q \in {r \in shorter : Len(r) = n - 1}, x \in S}

\* Python's  t in s  for strings.
Contains(s, t) ==
    \E i \in 1..(Len(s) - Len(t) + 1) : SubSeq(s, i, i + Len(t) - 1) = t

\* Python's  s.replace(old, new)  for a non-empty old.
RECURSIVE Replace(_, _, _)
Replace(s, old, new) ==
    IF Len(s) < Len(old) THEN s
    ELSE IF SubSeq(s, 1, Len(old)) = old
         THEN new \o Replace(SubSeq(s, Len(old) + 1, Len(s)), old, new)
         ELSE SubSeq(s, 1, 1) \o Replace(SubSeq(s, 2, Len(s)), old, new)

\* Python's  s.split(sep)[-1]: the text after the last occurrence of sep.
RECURSIVE LastPart(_, _)
LastPart(s, sep) ==
    IF \E i \in 1..(Len(s) - Len(sep) + 1) : SubSeq(s, i, i + Len(sep) - 1) = sep
    THEN LET i == CHOOSE k \in 1..(Len(s) - Len(sep) + 1) :
                      SubSeq(s, k, k + Len(sep) - 1) = sep
         IN  LastPart(SubSeq(s, i + Len(sep), Len(s)), sep)
    ELSE s

\* Python's  sep.join(l)  for a list of strings.
RECURSIVE Join(_, _)
Join(l, sep) ==
    IF l = << >> THEN ""
    ELSE IF Len(l) = 1 THEN l[1]
    ELSE l[1] \o sep \o Join(Tail(l), sep)

\* Python's  s.split(sep): the pieces of s between the occurrences of sep.
RECURSIVE Split(_, _)
Split(s, sep) ==
    IF \E i \in 1..(Len(s) - Len(sep) + 1) : SubSeq(s, i, i + Len(sep) - 1) = sep
    THEN LET i == CHOOSE k \in 1..(Len(s) - Len(sep) + 1) :
                      /\ SubSeq(s, k, k + Len(sep) - 1) = sep
                      /\ \A j \in 1..(k - 1) : SubSeq(s, j, j + Len(sep) - 1) # sep
         IN  << SubSeq(s, 1, i - 1) >> \o Split(SubSeq(s, i + Len(sep), Len(s)), sep)
    ELSE << s >>

\* Python's truth value of a cell: None and the empty string are false.
Truthy(v) == v # None /\ v # ""

\* pandas' notna.
Notna(v) == v # None /\ v # NaN

\* The values of l in the order of their first occurrence (Series.unique).
RECURSIVE Unique(_)
Unique(l) ==
    IF l = << >> THEN << >>
    ELSE LET rest == Unique(SubSeq(l, 1, Len(l) - 1))
         IN  IF l[Len(l)] \in Range(rest) THEN rest ELSE Append(rest, l[Len(l)])

\* ------------------------------------------------------- capture texts
(* A capture is a sequence of lines.  A line that mentions a command is    *)
(*   "hdr"    the prompt line  <name_file># show ...  of the file's device  *)
(*   "echo"   a line that starts with  show ...  (removed by the re.sub)   *)
(*   "other"  any other line holding the command text, such as the prompt  *)
(*            of another hostname                                          *)
LineKinds == {"hdr", "echo", "other"}

Line(k, c) == [kind |-> k, cmd |-> c]

\* The commands left out of a drawn capture come from the last three.
Droppable == {required_commands[i] : i \in 7..9}

MissingChoices == {m \in SUBSET Droppable : Cardinality(m) <= MaxMissing}

\* A capture with every required command but those in miss; the first
\* command is written as a line of kind k, the others as prompt headers.
CaptureText(miss, k) ==
    LET keep == SelectSeq(required_commands, LAMBDA c : c \notin miss)
    IN  [i \in DOMAIN keep |-> Line(IF i = 1 THEN k ELSE "hdr", keep[i])]

Captures == {CaptureText(m, k) : m \in MissingChoices, k \in LineKinds}

\* A .log upload is saved but never opened (execute_split opens <name>.txt),
\* so two texts stand for all of them: a complete one and one lacking a marker.
LogCaptures ==
    {CaptureText({}, "hdr"), CaptureText({required_commands[9]}, "hdr")}

\* The text of a line of the file name_file.txt.
LineText(name_file, l) ==
    CASE l.kind = "hdr" -> name_file \o "# " \o l.cmd
      [] l.kind = "echo" -> l.cmd
      [] l.kind = "bang" -> "!"
      [] OTHER -> "other# " \o l.cmd

\* The same for an IOS-XE capture, whose prompt has no space after the "#".
LineTextXe(name_file, l) ==
    CASE l.kind = "hdr" -> name_file \o "#" \o l.cmd
      [] l.kind = "echo" -> l.cmd
      [] l.kind = "bang" -> "!"
      [] OTHER -> "other#" \o l.cmd

\* command in data  (logic.py:43): the raw text holds the command text when
\* one of its lines does, whatever the kind of the line.
InData(command, data) ==
    \E i \in DOMAIN data : Contains(data[i].cmd, command)

\* logic.py:41-44, in the order of required_commands.
MissingCommands(data) ==
    SelectSeq(required_commands, LAMBDA c : ~InData(c, data))

\* logic.py:52: the re.sub drops the lines that start with "show" and the
\* lines that are a lone "!".
StripBoilerplate(data) ==
    SelectSeq(data, LAMBDA l : l.kind \notin {"echo", "bang"})

\* logic.py:60-63: the segment's file name from its header line.
SegmentFile(name_file, l) ==
    LET header == LineText(name_file, l)
        command == Replace(LastPart(header, "#show "), " ", "_")
    IN  Replace(command, name_file \o "#_", "") \o ".txt"

\* logic.py:53: the positions of the prompt headers in the stripped text.
HeaderPositions(data) == {i \in DOMAIN data : data[i].kind = "hdr"}

\* blocks[i] and blocks[i+1]: the header at position i with the lines up to
\* the next header.
BlockAt(data, i) ==
    LET later == {j \in HeaderPositions(data) : j > i}
        stop == IF later = {} THEN Len(data) + 1
                ELSE CHOOSE j \in later : \A k \in later : j <= k
    IN  SubSeq(data, i, stop - 1)

\* open(filename, "w") ... out.write(content): the file is created or
\* replaced.
WriteFile(dir, filename, content) ==
    [f \in DOMAIN dir \cup {filename} |->
        IF f = filename THEN content ELSE dir[f]]

\* open(filename, "w") (logic.py:65, logic_xe.py:43) raises
\* FileNotFoundError for a file name with a "/" in it: the path then names a
\* file in a directory below the device's, which nothing has created.
OpenFails(filename) == Contains(filename, "/")

\* logic.py:59-66: the loop over the blocks from position i on, writing into
\* the files dir; a later header with the same file name overwrites the
\* earlier one, and the loop ends at the first open that raises.
RECURSIVE WriteBlocks(_, _, _, _)
WriteBlocks(name_file, data, i, dir) ==
    IF i > Len(data) THEN dir
    ELSE IF i \notin HeaderPositions(data)
         THEN WriteBlocks(name_file, data, i + 1, dir)
         ELSE LET filename == SegmentFile(name_file, data[i])
              IN  IF OpenFails(filename) THEN dir
                  ELSE WriteBlocks(name_file, data, i + 1,
                           WriteFile(dir, filename, BlockAt(data, i)))

\* logic.py:52-66: the files written for one capture.
SegmentsOf(name_file, data) ==
    WriteBlocks(name_file, StripBoilerplate(data), 1, [f \in {} |-> << >>])

\* logic.py:64-65: the loop over the blocks is left by an exception.
SplitRaises(name_file, data) ==
    \E i \in HeaderPositions(StripBoilerplate(data)) :
        OpenFails(SegmentFile(name_file, StripBoilerplate(data)[i]))

\* logic_xe.py:33-42: the segment's file name from its header line.
SegmentFileXe(name_file, l) ==
    LET header == LineTextXe(name_file, l)
        command == Replace(LastPart(header, "#show "), " ", "_")
        renamed ==
            CASE command = "etherchannel_summary" -> "port-channel_summary"
              [] command = "interfaces_description" -> "interface_description"
              [] command = "interfaces_status" -> "interface_status"
              [] command = "interfaces_trunk" -> "interface_trunk"
              [] OTHER -> command
    IN  "show_" \o Replace(renamed, name_file \o "#_", "") \o ".txt"

\* logic_xe.py:39-40: the content is the text after the header, without the
\* lines that are a lone "!".
ContentXe(block) == SelectSeq(Tail(block), LAMBDA l : l.kind # "bang")

\* logic_xe.py:31-43: the loop over the blocks from position i on.
RECURSIVE WriteBlocksXe(_, _, _, _)
WriteBlocksXe(name_file, data, i, dir) ==
    IF i > Len(data) THEN dir
    ELSE IF i \notin HeaderPositions(data)
         THEN WriteBlocksXe(name_file, data, i + 1, dir)
         ELSE LET filename == SegmentFileXe(name_file, data[i])
              IN  IF OpenFails(filename) THEN dir
                  ELSE WriteBlocksXe(name_file, data, i + 1,
                           WriteFile(dir, filename, ContentXe(BlockAt(data, i))))

\* logic_xe.py:26-43: the files written for one capture; the text is split
\* as it is read.
SegmentsOfXe(name_file, data) ==
    WriteBlocksXe(name_file, data, 1, [f \in {} |-> << >>])

\* logic_xe.py:42-43: the loop over the blocks is left by an exception.
SplitRaisesXe(name_file, data) ==
    \E i \in HeaderPositions(data) : OpenFails(SegmentFileXe(name_file, data[i]))

\* open(filename, "w") for every segment: a file of the directory with the
\* same name is replaced, the others stay.
WriteSegments(dir, segments) ==
    [f \in DOMAIN dir \cup DOMAIN segments |->
        IF f \in DOMAIN segments THEN segments[f] ELSE dir[f]]

(* The captures drawn for the splitter alone: every required command as a  *)
(* prompt header, followed by at most MaxExtraLines                        *)
(* further lines: a header of a command that is not required, a header of  *)
(* a command already there, the header IOS-XE files under another name, a  *)
(* header of a command that names an interface, an echoed command, another *)
(* hostname's prompt, and a lone "!".                                      *)
ExtraLines ==
    { Line("hdr", "show version"), Line("hdr", "show ip arp"),
      Line("hdr", "show interfaces status"),
      Line("hdr", "show interface Eth1/1"), Line("echo", "show version"),
      Line("other", "show version"), Line("bang", "") }

SplitCaptures ==
    { CaptureText({}, "hdr") \o e : e \in SeqsUpTo(ExtraLines, MaxExtraLines) }

\* ---------------------------------------------------- parsed tables
(* What the TextFSM templates give for a device's segments is an input:    *)
(* the MacAddressTable rows (PORTS, MAC_ADDRESS, VLAN_ID) and the          *)
(* IpArpTable rows (MAC_ADDRESS, IP_ADDRESS).  raises marks a row whose    *)
(* record synthesis (logic.py:117-188) raises an exception.                *)
Ports == {"Eth1/1", "Po1", "vPC Peer-Link"}

Macs == {"m1", "m2"}

Vlans == {"10", "20"}

Ips == {"ip1", "ip2"}

MacRows == [PORTS : Ports, MAC_ADDRESS : Macs, VLAN_ID : Vlans, raises : BOOLEAN]

MacTables(n) == SeqsUpTo(MacRows, n)

ArpRow(m, ip) == [MAC_ADDRESS |-> m, IP_ADDRESS |-> ip]

ArpTables ==
    { << >>, << ArpRow("m1", "ip1") >>, << ArpRow("m2", "ip2") >>,
      << ArpRow("m1", "ip2"), ArpRow("m1", "ip1") >> }

(* The seven other tables of logic.py:99-105.  Each is drawn either empty  *)
(* (a DataFrame with no rows and no columns) or as the rows below, which   *)
(* describe one switch:                                                    *)
(*   Eth1/1  copper, access VLAN 10, CDP/LLDP neighbor sw1                 *)
(*   Eth1/2  fiber, trunk, CDP neighbor sw2 on the same remote port name   *)
(*   Eth1/3  no transceiver type, no VLAN cell, CDP neighbor sw10          *)
(*   Eth1/4  CDP neighbor sw1                                              *)
(*   Po1     = Eth1/1, Eth1/2;  Po2 = Eth1/3, Eth1/4;  Po3 without members *)
(*   Po4     = Eth1/5, an interface no other table has a row for           *)
(*   Vlan10  listed in the status table with a type that holds "T"          *)
InventoryRows ==
    << [NAME |-> "Slot 1", PID |-> "N9K-X", SN |-> "SN2"],
       [NAME |-> "Chassis", PID |-> "N9K-C", SN |-> "SN1"] >>

InterfaceDescriptionRows ==
    << [PORT |-> "Eth1/1", DESCRIPTION |-> "server"],
       [PORT |-> "Po1", DESCRIPTION |-> "uplink"] >>

PortChannelSummaryRows ==
    << [BUNDLE_NAME |-> "Po1", MEMBER_INTERFACE |-> << "Eth1/1", "Eth1/2" >>],
       [BUNDLE_NAME |-> "Po2", MEMBER_INTERFACE |-> << "Eth1/3", "Eth1/4" >>],
       [BUNDLE_NAME |-> "Po3", MEMBER_INTERFACE |-> << >>],
       [BUNDLE_NAME |-> "Po4", MEMBER_INTERFACE |-> << "Eth1/5" >>] >>

InterfaceStatusRows ==
    << [PORT |-> "Eth1/1", TYPE |-> "1000base-T", VLAN_ID |-> "10"],
       [PORT |-> "Eth1/2", TYPE |-> "10Gbase-SR", VLAN_ID |-> "trunk"],
       [PORT |-> "Eth1/3", TYPE |-> "", VLAN_ID |-> ""],
       [PORT |-> "Po1", TYPE |-> "--", VLAN_ID |-> "trunk"],
       [PORT |-> "Vlan10", TYPE |-> "1000base-T", VLAN_ID |-> "routed"] >>

CdpRow(l, n, p, i) ==
    [LOCAL_INTERFACE |-> l, NEIGHBOR_NAME |-> n, PLATFORM |-> p,
     NEIGHBOR_INTERFACE |-> i]

CdpNeighborsRows ==
    << CdpRow("Eth1/1", "sw1", "N9K", "Eth2/1"),
       CdpRow("Eth1/2", "sw2", "N5K", "Eth2/1"),
       CdpRow("Eth1/3", "sw10", "N9K", "Eth3/1"),
       CdpRow("Eth1/4", "sw1", "N9K", "Eth3/2") >>

LldpNeighborsRows ==
    << [LOCAL_INTERFACE |-> "Eth1/1", NEIGHBOR_NAME |-> "sw1",
        NEIGHBOR_INTERFACE |-> "Eth2/1"] >>

\* An ALLOWED_VLANS cell is a string or a list of strings.
InterfaceTrunkRows ==
    << [PORT |-> "Eth1/2", ALLOWED_VLANS |-> [is_str |-> FALSE, v |-> << "1-10", "20" >>]],
       [PORT |-> "Po1", ALLOWED_VLANS |-> [is_str |-> TRUE, v |-> "1-4094"]],
       [PORT |-> "Eth1/3", ALLOWED_VLANS |-> [is_str |-> TRUE, v |-> ""]] >>

\* The nine tables of a device whose seven other tables are empty.
Tables(n) ==
    [mac_address : MacTables(n), ip_arp : ArpTables,
     interface_description : {<< >>}, inventory : {<< >>},
     port_channel_summary : {<< >>}, interface_status : {<< >>},
     cdp_neighbors : {<< >>}, lldp_neighbors : {<< >>},
     interface_trunk : {<< >>}]

\* The tables drawn for a device of a whole session: one MAC, one VLAN, a
\* kept and an excluded port, and an ARP table with or without the MAC.
SessionMacRows ==
    [PORTS : {"Eth1/1", "vPC Peer-Link"}, MAC_ADDRESS : {"m1"},
     VLAN_ID : {"10"}, raises : BOOLEAN]

SessionTables(n) ==
    [mac_address : SeqsUpTo(SessionMacRows, n),
     ip_arp : {<< >>, << ArpRow("m1", "ip1") >>},
     interface_description : {<< >>}, inventory : {<< >>},
     port_channel_summary : {<< >>}, interface_status : {<< >>},
     cdp_neighbors : {<< >>}, lldp_neighbors : {<< >>},
     interface_trunk : {<< >>}]

\* The tables of one device for the record synthesis: a MacAddressTable of
\* the given rows, and each other table empty or as described above.
RecordTables(macs) ==
    [mac_address : macs,
     ip_arp : {<< >>, << ArpRow("m1", "ip1") >>},
     interface_description : {<< >>, InterfaceDescriptionRows},
     inventory : {<< >>, InventoryRows},
     port_channel_summary : {<< >>, PortChannelSummaryRows},
     interface_status : {<< >>, InterfaceStatusRows},
     cdp_neighbors : {<< >>, CdpNeighborsRows},
     lldp_neighbors : {<< >>, LldpNeighborsRows},
     interface_trunk : {<< >>, InterfaceTrunkRows}]

\* The ports of the rows drawn for the record synthesis.
RecordPorts ==
    {"Eth1/1", "Eth1/2", "Eth1/3", "Po1", "Po2", "Po3", "Po4", "Vlan10", "",
     "vPC Peer-Link"}

RecordMacRows ==
    [PORTS : RecordPorts, MAC_ADDRESS : {"m1"}, VLAN_ID : {"10"},
     raises : {FALSE}]

(* IOS-XE: the template gives the ports of a MAC row as a list            *)
(* (logic_xe.py:114-115), which may be empty.                              *)
RecordPortsXe ==
    { << >>, << "" >>, << "CPU" >>, << "Eth1/1" >>, << "Po1" >> }

RecordMacRowsXe ==
    [PORTS : RecordPortsXe, MAC_ADDRESS : {"m1"}, VLAN_ID : {"10"},
     raises : BOOLEAN]

\* ------------------------------------------- process_single_hostname
\* An exclusion test that never excludes a row.
ExcludedNever(row) == FALSE

\* logic.py:114: the row is skipped when its port holds "vPC".
Excluded(row) == Contains(row.PORTS, "vPC")

\* df.empty
EmptyNever(df) == FALSE

Empty(df) == Len(df) = 0

(* df.loc[df[key_col] == key, ...].values: the matching rows in table     *)
(* order.  A DataFrame made from no rows has no columns, so naming one of  *)
(* its columns raises KeyError (err).                                      *)
NoRows == [err |-> FALSE, vals |-> << >>]

LocRows(df, key_col, key) ==
    IF df = << >> THEN [err |-> TRUE, vals |-> << >>]
    ELSE [err |-> FALSE, vals |-> SelectSeq(df, LAMBDA r : r[key_col] = key)]

Loc(df, key_col, key, val_col) ==
    LET hits == LocRows(df, key_col, key)
    IN  [err |-> hits.err, vals |-> [i \in DOMAIN hits.vals |-> hits.vals[i][val_col]]]

\* array[0] if len(array) > 0 else default
First(array, default) == IF Len(array) > 0 THEN array[1] ELSE default

\* re.match(r'^Po', port)  (logic.py:133), port.startswith('Po') (logic_xe.py:132)
IsPo(port) == Len(port) >= 2 /\ SubSeq(port, 1, 2) = "Po"

\* logic.py:121, logic_xe.py:123: the rows the serial number is taken from.
SnArray(dialect, inventory) ==
    IF Empty(inventory) THEN NoRows
    ELSE IF dialect = "nxos" THEN Loc(inventory, "NAME", "Chassis", "SN")
    ELSE IF inventory = << >> THEN [err |-> TRUE, vals |-> << >>]
    ELSE LET hits == SelectSeq(inventory, LAMBDA r : Notna(r.PID))
         IN  [err |-> FALSE, vals |-> [i \in DOMAIN hits |-> hits[i].SN]]

\* logic.py:124-128: the IP of the first ARP row with the MAC, or None.
LookupIp(ip_arp, mac) ==
    LET ip_array == IF Empty(ip_arp) THEN NoRows
                    ELSE Loc(ip_arp, "MAC_ADDRESS", mac, "IP_ADDRESS")
    IN  [err |-> ip_array.err, v |-> First(ip_array.vals, None)]

\* logic.py:134-136: ', '.join of the bundle's member list, "" without one.
MemberPo(port_channel_summary, port) ==
    LET member_po_array ==
            IF Empty(port_channel_summary) THEN NoRows
            ELSE Loc(port_channel_summary, "BUNDLE_NAME", port, "MEMBER_INTERFACE")
    IN  [err |-> member_po_array.err,
         v |-> IF Len(member_po_array.vals) > 0
               THEN Join(member_po_array.vals[1], ", ") ELSE ""]

\* logic.py:138-139 and 144-145: the transceiver type of the first member
\* (port-channel) or of the port itself.
Sfp(interface_status, port, member_po) ==
    LET sfp_array ==
            IF IsPo(port)
            THEN IF ~Empty(interface_status) /\ member_po # ""
                 THEN Loc(interface_status, "PORT", Split(member_po, ",")[1], "TYPE")
                 ELSE NoRows
            ELSE IF Empty(interface_status) THEN NoRows
                 ELSE Loc(interface_status, "PORT", port, "TYPE")
    IN  [err |-> sfp_array.err, v |-> First(sfp_array.vals, None)]

\* logic.py:141 and 146; str(None) is "None".
TypeCable(port, sfp) ==
    IF IsPo(port)
    THEN IF Contains(sfp, "T") THEN "UTP"
         ELSE IF Truthy(sfp) THEN "Fiber" ELSE "???"
    ELSE IF Contains(sfp, "T") THEN "UTP"
         ELSE IF Truthy(sfp) /\ ~Contains(port, "Vlan") THEN "Fiber" ELSE "???"

\* A derivation that keeps the raw value.
TrunkAccessRaw(interface_status, port) ==
    LET trunk_access_array ==
            IF Empty(interface_status) THEN NoRows
            ELSE Loc(interface_status, "PORT", port, "VLAN_ID")
    IN  [err |-> trunk_access_array.err, v |-> First(trunk_access_array.vals, "")]

\* logic.py:148-151
TrunkAccess(interface_status, port) ==
    LET trunk_access_array ==
            IF Empty(interface_status) THEN NoRows
            ELSE Loc(interface_status, "PORT", port, "VLAN_ID")
        trunk_access == First(trunk_access_array.vals, "")
    IN  [err |-> trunk_access_array.err,
         v |-> IF Len(trunk_access) # 0 /\ ~Contains(trunk_access, "trunk")
                  /\ ~Contains(trunk_access, "routed")
               THEN "Access" ELSE trunk_access]

\* logic.py:130-131
Desc(interface_description, port) ==
    LET desc_array ==
            IF Empty(interface_description) THEN NoRows
            ELSE Loc(interface_description, "PORT", port, "DESCRIPTION")
    IN  [err |-> desc_array.err, v |-> First(desc_array.vals, None)]

NoCdp == [err |-> FALSE, hostname |-> None, platform |-> None, port |-> None]

\* logic.py:157-163: the loop over the members of a port-channel, from the
\* values c collected so far.
RECURSIVE CdpMembers(_, _, _)
CdpMembers(cdp_neighbors, members, c) ==
    IF members = << >> THEN c
    ELSE LET intf == Head(members)
             cdp_array == LocRows(cdp_neighbors, "LOCAL_INTERFACE", intf)
             found == cdp_array.vals[1]
             next ==
                 IF intf = "" THEN c
                 ELSE IF cdp_array.err THEN [c EXCEPT !.err = TRUE]
                 ELSE IF Len(cdp_array.vals) = 0 THEN c
                 ELSE [err |-> c.err,
                       hostname |-> IF ~Contains(c.hostname, found.NEIGHBOR_NAME)
                                    THEN found.NEIGHBOR_NAME ELSE c.hostname,
                       platform |-> IF ~Contains(c.platform, found.PLATFORM)
                                    THEN found.PLATFORM ELSE c.platform,
                       port |-> IF c.port # ""
                                THEN c.port \o ", " \o found.NEIGHBOR_INTERFACE
                                ELSE found.NEIGHBOR_INTERFACE]
         IN  CdpMembers(cdp_neighbors, Tail(members), next)

\* A lookup that treats a port-channel like any other port: the rows of the
\* port itself, and null when there is none.
CdpOfPort(cdp_neighbors, port, member_po) ==
    IF Empty(cdp_neighbors) THEN NoCdp
    ELSE LET cdp_array == LocRows(cdp_neighbors, "LOCAL_INTERFACE", port)
         IN  IF cdp_array.err THEN [NoCdp EXCEPT !.err = TRUE]
             ELSE IF Len(cdp_array.vals) = 0 THEN NoCdp
             ELSE [err |-> FALSE, hostname |-> cdp_array.vals[1].NEIGHBOR_NAME,
                   platform |-> cdp_array.vals[1].PLATFORM,
                   port |-> cdp_array.vals[1].NEIGHBOR_INTERFACE]

\* logic.py:153-167
Cdp(cdp_neighbors, port, member_po) ==
    IF Empty(cdp_neighbors) THEN NoCdp
    ELSE IF IsPo(port)
    THEN CdpMembers(cdp_neighbors, Split(member_po, ", "),
                    [err |-> FALSE, hostname |-> "", platform |-> "", port |-> ""])
    ELSE LET cdp_array == LocRows(cdp_neighbors, "LOCAL_INTERFACE", port)
         IN  IF cdp_array.err THEN [NoCdp EXCEPT !.err = TRUE]
             ELSE IF Len(cdp_array.vals) = 0 THEN NoCdp
             ELSE [err |-> FALSE, hostname |-> cdp_array.vals[1].NEIGHBOR_NAME,
                   platform |-> cdp_array.vals[1].PLATFORM,
                   port |-> cdp_array.vals[1].NEIGHBOR_INTERFACE]

\* logic_xe.py:148-155
CdpXe(cdp_neighbors, port, member_po) ==
    IF Empty(cdp_neighbors) THEN NoCdp
    ELSE IF cdp_neighbors = << >> THEN [NoCdp EXCEPT !.err = TRUE]
    ELSE LET interfaces_to_check ==
                 IF IsPo(port) /\ member_po # "" THEN Split(member_po, ", ")
                 ELSE << port >>
             cdp_data == SelectSeq(cdp_neighbors,
                             LAMBDA r : r.LOCAL_INTERFACE \in Range(interfaces_to_check))
         IN  IF Len(cdp_data) = 0 THEN NoCdp
             ELSE [err |-> FALSE, hostname |-> cdp_data[1].NEIGHBOR_NAME,
                   platform |-> cdp_data[1].PLATFORM,
                   port |-> Join(Unique([i \in DOMAIN cdp_data |->
                                           cdp_data[i].NEIGHBOR_INTERFACE]), ", ")]

\* logic.py:169-173
Lldp(lldp_neighbors, port) ==
    IF Empty(lldp_neighbors) \/ IsPo(port)
    THEN [err |-> FALSE, hostname |-> None, port |-> None]
    ELSE LET lldp_array == LocRows(lldp_neighbors, "LOCAL_INTERFACE", port)
         IN  [err |-> lldp_array.err,
              hostname |-> IF Len(lldp_array.vals) > 0
                           THEN lldp_array.vals[1].NEIGHBOR_NAME ELSE None,
              port |-> IF Len(lldp_array.vals) > 0
                       THEN lldp_array.vals[1].NEIGHBOR_INTERFACE ELSE None]

\* logic.py:175-179
AllowedVlan(interface_trunk, port) ==
    IF Empty(interface_trunk) THEN [err |-> FALSE, v |-> ""]
    ELSE LET allowed_vlan_trunk_values == Loc(interface_trunk, "PORT", port, "ALLOWED_VLANS")
             cell == allowed_vlan_trunk_values.vals[1]
         IN  [err |-> allowed_vlan_trunk_values.err,
              v |-> IF Len(allowed_vlan_trunk_values.vals) = 0 THEN ""
                    ELSE IF cell.is_str THEN cell.v
                    ELSE Join(cell.v, ",")]

(* logic.py:121-179 (dialect "nxos") and logic_xe.py:123-166 ("xe"): the   *)
(* values looked up for the port and MAC of one row; err when a lookup     *)
(* raised.                                                                 *)
Lookups(dialect, port, mac, T) ==
    LET sn_array == SnArray(dialect, T.inventory)
        ip == LookupIp(T.ip_arp, mac)
        desc == Desc(T.interface_description, port)
        member_po == IF IsPo(port) THEN MemberPo(T.port_channel_summary, port)
                     ELSE [err |-> FALSE, v |-> ""]
        sfp == Sfp(T.interface_status, port, member_po.v)
        trunk_access == TrunkAccess(T.interface_status, port)
        cdp == IF dialect = "nxos" THEN Cdp(T.cdp_neighbors, port, member_po.v)
               ELSE CdpXe(T.cdp_neighbors, port, member_po.v)
        lldp == Lldp(T.lldp_neighbors, port)
        allowed_vlan_trunk == AllowedVlan(T.interface_trunk, port)
    IN  [err |-> \/ sn_array.err \/ ip.err \/ desc.err \/ member_po.err
                 \/ sfp.err \/ trunk_access.err \/ cdp.err \/ lldp.err
                 \/ allowed_vlan_trunk.err,
         sn |-> First(sn_array.vals, None), ip |-> ip.v, desc |-> desc.v,
         member_po |-> member_po.v, sfp |-> sfp.v,
         type_cable |-> TypeCable(port, sfp.v),
         trunk_access |-> trunk_access.v,
         cdp_remote_hostname |-> cdp.hostname,
         cdp_remote_platform |-> cdp.platform, cdp_remote_port |-> cdp.port,
         lldp_remote_hostname |-> lldp.hostname, lldp_remote_port |-> lldp.port,
         allowed_vlan_trunk |-> allowed_vlan_trunk.v]

\* logic.py:181-188 / logic_xe.py:168-174: the appended record.
Record(hostname, port, row, L) ==
    [ Hostname |-> hostname, SerialNumber |-> L.sn, Port |-> port,
      MemberPO |-> L.member_po, TipeKabel |-> L.type_cable, SFP |-> L.sfp,
      IP |-> L.ip, Mac |-> row.MAC_ADDRESS, VLAN |-> row.VLAN_ID,
      AllowedVLAN |-> L.allowed_vlan_trunk, TrunkAccess |-> L.trunk_access,
      Description |-> L.desc, CdpNeighborHostname |-> L.cdp_remote_hostname,
      CdpNeighborPlatform |-> L.cdp_remote_platform,
      CdpNeighborPort |-> L.cdp_remote_port,
      LldpNeighborHostname |-> L.lldp_remote_hostname,
      LldpNeighborPort |-> L.lldp_remote_port ]

\* logic.py:117-119, 181-188: the record appended for one row.
PortRecord(hostname, row, T) ==
    Record(hostname, row.PORTS, row,
           Lookups("nxos", row.PORTS, row.MAC_ADDRESS, T))

\* logic.py:112-188: one iteration of the row loop, from the loop's state
\* st = [result, raised]; an exception ends the loop (there is no try).
RowStep(hostname, row, T, st) ==
    IF st.raised \/ Excluded(row) THEN st
    ELSE IF row.raises \/ Lookups("nxos", row.PORTS, row.MAC_ADDRESS, T).err
    THEN [st EXCEPT !.raised = TRUE]
    ELSE [st EXCEPT !.result = Append(@, PortRecord(hostname, row, T))]

\* logic_xe.py:114-115
PortXe(row) == IF row.PORTS # << >> THEN row.PORTS[1] ELSE ""

\* logic_xe.py:111-119: the rows the loop passes over: a CPU row, and a row
\* whose first port is empty.
SkippedXe(row) == "CPU" \in Range(row.PORTS) \/ PortXe(row) = ""

\* logic_xe.py:108-178: one iteration of the row loop; an exception in the
\* body is caught (lines 109, 175-178) and the loop goes on.
RowStepXe(hostname, row, T, st) ==
    IF SkippedXe(row) THEN st
    ELSE LET L == Lookups("xe", PortXe(row), row.MAC_ADDRESS, T)
         IN  IF row.raises \/ L.err THEN st
             ELSE [st EXCEPT !.result =
                       Append(@, Record(hostname, PortXe(row), row, L))]

RECURSIVE RowLoop(_, _, _, _)
RowLoop(hostname, T, i, st) ==
    IF i > Len(T.mac_address) THEN st
    ELSE RowLoop(hostname, T, i + 1, RowStep(hostname, T.mac_address[i], T, st))

\* One artifact name for every device.
SharedArtifactName(hostname) == "All_Devices.xlsx"

\* logic.py:196, 210: the name of the device's artifact.
ArtifactName(hostname) == hostname \o ".xlsx"

\* logic.py:196-198: the path of the artifact in the output folder.
OutputPath(hostname) == << "output", "", ArtifactName(hostname) >>

\* logic.py:108-110: the value returned for an empty MacAddressTable.
EmptyMacReturn(hostname) == ArtifactName(hostname)

\* logic_xe.py:103-105
EmptyMacReturnXe == None

(* logic.py:107-210: what the task does for one device: whether it raises, *)
(* what it returns, and the 'Final Data' sheet it writes (wrote = FALSE:   *)
(* no artifact).                                                           *)
ProcessSingleHostname(hostname, T) ==
    IF Len(T.mac_address) = 0
    THEN [raised |-> FALSE, value |-> EmptyMacReturn(hostname),
          wrote |-> FALSE, sheet |-> << >>]
    ELSE LET st == RowLoop(hostname, T, 1, [result |-> << >>, raised |-> FALSE])
         IN  IF st.raised
             THEN [raised |-> TRUE, value |-> None, wrote |-> FALSE, sheet |-> << >>]
             ELSE IF st.result = << >>
             THEN [raised |-> FALSE, value |-> None, wrote |-> FALSE, sheet |-> << >>]
             ELSE [raised |-> FALSE, value |-> ArtifactName(hostname),
                   wrote |-> TRUE, sheet |-> st.result]

\* logic.py:97-105: the segment file each table is parsed from.
SegmentOfTable ==
    [mac_address |-> "show_mac_address-table.txt",
     ip_arp |-> "show_ip_arp.txt",
     interface_description |-> "show_interface_description.txt",
     inventory |-> "show_inventory.txt",
     port_channel_summary |-> "show_port-channel_summary.txt",
     interface_status |-> "show_interface_status.txt",
     cdp_neighbors |-> "show_cdp_neighbors.txt",
     lldp_neighbors |-> "show_lldp_neighbors.txt",
     interface_trunk |-> "show_interface_trunk.txt"]

\* logic.py:90-92: read_file opens the file of the task's own hostname below
\* the split folder.
ReadPath(hostname, filename) == << "split", hostname, filename >>

\* logic.py:75, 97-105: the TextFSM template each table is parsed with, a
\* file of the program's template directory.
TemplatePath(t) ==
    LET segment == SegmentOfTable[t]
    IN  << "templates", "",
           "cisco_nxos_" \o SubSeq(segment, 1, Len(segment) - 4) \o ".textfsm" >>

\* logic.py:97-105: the files a task opens for reading.
TaskReads(hostname) ==
    {ReadPath(hostname, SegmentOfTable[t]) : t \in DOMAIN SegmentOfTable}
        \cup {TemplatePath(t) : t \in DOMAIN SegmentOfTable}

\* logic.py:198-208: the files a task opens for writing, given what it did.
TaskWrites(hostname, r) == IF r.wrote THEN {OutputPath(hostname)} ELSE {}

\* A task that has not run has opened nothing.
NoAccess == [reads |-> {}, writes |-> {}]

\* logic.py:90-105: the Table Loader reads a missing segment as "", which
\* parses to an empty table; a present segment parses to the drawn table.
LoadTables(segments, parsed) ==
    [t \in DOMAIN SegmentOfTable |->
        IF SegmentOfTable[t] \in DOMAIN segments THEN parsed[t] ELSE << >>]

\* ------------------------------------------------------ aggregation
\* pd.read_excel of a sheet written by to_excel: an empty cell (None) is
\* read back as NaN.
ReadExcel(sheet) ==
    [i \in DOMAIN sheet |->
        [f \in DOMAIN sheet[i] |-> IF sheet[i][f] = None THEN NaN ELSE sheet[i][f]]]

IsNa(v) == v \in {None, NaN}

RECURSIVE Concat(_)
Concat(frames) ==
    IF frames = << >> THEN << >> ELSE Head(frames) \o Concat(Tail(frames))

\* logic.py:257: dropna(subset=['IP Address']).set_index('Mac Address')
\* ['IP Address'].to_dict(): the dict is filled row by row, so a later row
\* with the same MAC replaces the earlier entry.
RECURSIVE ToDictFirst(_, _)
ToDictFirst(df, d) ==
    IF df = << >> THEN d
    ELSE LET r == Head(df)
         IN  IF IsNa(r.IP) \/ r.Mac \in DOMAIN d THEN ToDictFirst(Tail(df), d)
             ELSE ToDictFirst(Tail(df),
                              [m \in DOMAIN d \cup {r.Mac} |->
                                  IF m = r.Mac THEN r.IP ELSE d[m]])

RECURSIVE ToDict(_, _)
ToDict(df, d) ==
    IF df = << >> THEN d
    ELSE LET r == Head(df)
         IN  IF IsNa(r.IP) THEN ToDict(Tail(df), d)
             ELSE ToDict(Tail(df),
                         [m \in DOMAIN d \cup {r.Mac} |->
                             IF m = r.Mac THEN r.IP ELSE d[m]])

EmptyDict == [m \in {} |-> None]

MacToIp(df) == ToDict(df, EmptyDict)

\* The map applied to every row, without the fillna.
FillRowAlways(r, mac_to_ip) ==
    [r EXCEPT !.IP = IF r.Mac \in DOMAIN mac_to_ip THEN mac_to_ip[r.Mac] ELSE NaN]

\* logic.py:258: fillna(final_df['Mac Address'].map(mac_to_ip)) for one row.
FillRow(r, mac_to_ip) ==
    IF IsNa(r.IP)
    THEN [r EXCEPT !.IP = IF r.Mac \in DOMAIN mac_to_ip THEN mac_to_ip[r.Mac] ELSE NaN]
    ELSE r

\* logic.py:249-258: the FinalReport table from the frames read back.
Backfill(frames) ==
    LET final_df == Concat(frames)
        mac_to_ip == MacToIp(final_df)
    IN  [i \in DOMAIN final_df |-> FillRow(final_df[i], mac_to_ip)]

\* ================================================================ state
VARIABLES
    pc,             \* where process_files / execute_main is
    uploads,        \* request.files: (name, ext) -> capture text
    input_folder,   \* sessions/<s>/input: (name, ext) -> capture text
    dir_list,       \* SpecSplit: the listing of the input directory that both
                    \* calls of execute_split get
    split_run,      \* the number of calls of execute_split so far
    first_run,      \* what the first call of execute_split left and returned
    filenames,      \* execute_split: the names still to be processed
    error_messages, \* execute_split: the messages collected so far
    split_folder,   \* input/split: device -> (segment file -> block)
    hostnames,      \* execute_main: the device list, in listdir order
    task,           \* per task: "queued", "running", "done"
    outcome,        \* per task: what the finished task reported
    accessed,       \* per task: the files it opened for reading and writing
    finished,       \* the tasks that have reported, in the order they finished
    wtask,          \* per pool worker: the task it runs, 0 when idle
    number_left,    \* MapResult: the tasks not yet reported
    results,        \* execute_main: the list pool.map returned
    agg_i,          \* execute_main: position of the aggregation loop
    all_device_data,\* execute_main: the frames read back so far
    output_folder,  \* sessions/<s>/output: file name -> sheet
    main_state,     \* execute_main: "not_called", "running", "returned", "raised"
    response,       \* process_files: "none", "index" or "results"
    flashed,        \* process_files: the flashed messages
    pipeline,       \* the module in use: "nxos" (logic.py) or "xe" (logic_xe.py)
    b_host, b_tables, b_index, b_state   \* the row loop (SpecBuild)

vars ==
    << pc, uploads, input_folder, dir_list, split_run, first_run, filenames,
       error_messages, split_folder, hostnames, task, outcome, accessed, finished,
       wtask, number_left, results, agg_i,
       all_device_data, output_folder, main_state, response, flashed,
       pipeline, b_host, b_tables, b_index, b_state >>

uploadVars == << uploads, input_folder >>

splitVars ==
    << dir_list, split_run, first_run, filenames, error_messages, split_folder >>

poolVars ==
    << hostnames, task, outcome, accessed, finished, wtask, number_left >>

aggVars == << results, agg_i, all_device_data >>

buildVars == << pipeline, b_host, b_tables, b_index, b_state >>

Workers == 1..NumWorkers

EmptyFn == [x \in {} |-> << >>]

FINAL_REPORT == "Final_Report.xlsx"

\* ------------------------------------------------------------ uploads
Slots == Names \X UploadExtensions

TextsFor(slot) ==
    CASE slot[2] = "txt" -> Captures
      [] slot[2] = "log" -> LogCaptures
      [] OTHER -> {<< >>}

\* The uploads of one request: at most MaxFiles files with distinct names.
UploadSets ==
    UNION { [S -> UNION {TextsFor(x) : x \in S}] :
              S \in {T \in SUBSET Slots : Cardinality(T) <= MaxFiles} }

Uploads == {u \in UploadSets : \A x \in DOMAIN u : u[x] \in TextsFor(x)}

\* A flashed message other than a validation message.
Flash(text) == [text |-> text, file |-> "", missing |-> << >>]

\* app.py:19-22
allowed_file(slot) == slot[2] \in ALLOWED_EXTENSIONS

NoRun == [split_folder |-> EmptyFn, error_messages |-> << >>, raised |-> FALSE]

IdleSplit ==
    /\ dir_list = << >> /\ split_run = 0 /\ first_run = NoRun
    /\ filenames = << >> /\ error_messages = << >> /\ split_folder = EmptyFn

IdleRows ==
    /\ b_host = "" /\ b_tables = [t \in DOMAIN SegmentOfTable |-> << >>]
    /\ b_index = 0
    /\ b_state = [result |-> << >>, raised |-> FALSE, done |-> FALSE,
                  value |-> None, wrote |-> FALSE]

IdleBuild == pipeline = "nxos" /\ IdleRows

IdleMain ==
    /\ hostnames = << >> /\ task = << >> /\ outcome = << >>
    /\ accessed = << >> /\ finished = << >>
    /\ wtask = [w \in Workers |-> 0] /\ number_left = 0
    /\ results = << >> /\ agg_i = 0 /\ all_device_data = << >>
    /\ output_folder = EmptyFn /\ main_state = "not_called"

Init ==
    /\ pc = "save"
    /\ uploads \in Uploads
    /\ input_folder = EmptyFn
    /\ IdleSplit
    /\ IdleMain
    /\ response = "none" /\ flashed = << >>
    /\ IdleBuild

\* logic.py:28: the listed file names without their extensions.
Filenames(listing) == [i \in DOMAIN listing |-> listing[i][1]]

\* app.py:60-66: the files are saved in upload order up to the first one
\* that is not allowed, which ends the request.  With every file saved,
\* execute_split starts: logic.py:27-28 lists the directory in any order and
\* strips each file's extension.
SaveUploads ==
    /\ pc = "save"
    /\ \E order \in Perms(DOMAIN uploads) :
          LET bad == {i \in DOMAIN order : ~allowed_file(order[i])}
              stop == IF bad = {} THEN Len(order) + 1
                      ELSE CHOOSE i \in bad : \A j \in bad : i <= j
              saved == {order[i] : i \in 1..(stop - 1)}
          IN  /\ input_folder' = [x \in saved |-> uploads[x]]
              /\ IF Len(order) = 0 \/ bad # {}
                 THEN /\ pc' = "rejected"
                      /\ response' = "index"
                      /\ flashed' = << Flash("not accepted") >>
                      /\ UNCHANGED << split_run, filenames >>
                 ELSE /\ pc' = "split"
                      /\ response' = response
                      /\ flashed' = flashed
                      /\ split_run' = 1
                      /\ filenames' = Filenames(order)
    /\ UNCHANGED << uploads, dir_list, first_run, error_messages, split_folder,
                    poolVars, aggVars, output_folder, main_state, buildVars >>

\* logic.py:47: the message for one file.
ErrorMessage(name_file, missing) ==
    [text |-> "is missing command(s)", file |-> name_file \o ".txt",
     missing |-> missing]

\* The continue of logic.py:49 left out.
SkipsSplitNever(missing_commands) == FALSE

\* logic.py:46-49: a file with missing commands is not split (continue).
SkipsSplit(missing_commands) == missing_commands # << >>

\* logic.py:30-67, logic_xe.py:19-44: one iteration of the loop over
\* filenames; logic_xe.py has no validation.  An open that raises while the
\* segments are written is not caught: it ends execute_split with the
\* segments written so far.
SplitFile ==
    /\ pc = "split"
    /\ filenames # << >>
    /\ LET name_file == Head(filenames)
           path == << name_file, "txt" >>
       IN  IF path \notin DOMAIN input_folder
           THEN UNCHANGED << pc, error_messages, split_folder >>
           ELSE LET data == input_folder[path]
                    missing_commands ==
                        IF pipeline = "nxos" THEN MissingCommands(data) ELSE << >>
                    segments ==
                        IF pipeline = "nxos" THEN SegmentsOf(name_file, data)
                        ELSE SegmentsOfXe(name_file, data)
                    device_output_dir ==
                        IF name_file \in DOMAIN split_folder
                        THEN split_folder[name_file] ELSE EmptyFn
                    raises ==
                        /\ ~SkipsSplit(missing_commands)
                        /\ IF pipeline = "nxos" THEN SplitRaises(name_file, data)
                           ELSE SplitRaisesXe(name_file, data)
                IN  /\ pc' = IF raises THEN "split_raised" ELSE pc
                    /\ error_messages' =
                         IF missing_commands # << >>
                         THEN Append(error_messages,
                                     ErrorMessage(name_file, missing_commands))
                         ELSE error_messages
                    /\ split_folder' =
                         IF SkipsSplit(missing_commands) THEN split_folder
                         ELSE [d \in DOMAIN split_folder \cup {name_file} |->
                                  IF d = name_file
                                  THEN WriteSegments(device_output_dir, segments)
                                  ELSE split_folder[d]]
    /\ filenames' = Tail(filenames)
    /\ UNCHANGED << uploadVars, dir_list, split_run, first_run, poolVars,
                    aggVars, output_folder, main_state, response, flashed,
                    buildVars >>

\* A handler that does not look at what execute_split returned.
ValidationIgnored(validation_errors) == FALSE

\* app.py:72: the handler's test of what execute_split returned.
ValidationFailed(validation_errors) == validation_errors # << >>

NoOutcome == [raised |-> FALSE, value |-> None]

\* app.py:71-78 after execute_split's loop has ended (logic.py:69): either
\* the messages are flashed and the request ends, or execute_main starts:
\* logic.py:222-230 lists the device directories in any order and hands one
\* task per device to the pool.
SplitReturn ==
    /\ pc = "split"
    /\ filenames = << >>
    /\ IF ValidationFailed(error_messages)
       THEN /\ flashed' = error_messages
            /\ response' = "index"
            /\ pc' = "returned"
            /\ UNCHANGED << poolVars, main_state, agg_i >>
       ELSE /\ \E order \in Perms(DOMAIN split_folder) :
                 /\ hostnames' = order
                 /\ task' = [i \in DOMAIN order |-> "queued"]
                 /\ outcome' = [i \in DOMAIN order |-> NoOutcome]
                 /\ accessed' = [i \in DOMAIN order |-> NoAccess]
                 /\ number_left' = Len(order)
            /\ finished' = << >>
            /\ wtask' = wtask
            /\ agg_i' = 0
            /\ main_state' = "running"
            /\ pc' = "pool"
            /\ UNCHANGED << flashed, response >>
    /\ UNCHANGED << uploadVars, splitVars, results, all_device_data,
                    output_folder, buildVars >>

\* multiprocessing.Pool: an idle worker takes the next task of the queue.
WorkerTake(w) ==
    /\ pc = "pool"
    /\ wtask[w] = 0
    /\ \E i \in DOMAIN task :
          /\ task[i] = "queued"
          /\ \A j \in DOMAIN task : task[j] = "queued" => i <= j
          /\ task' = [task EXCEPT ![i] = "running"]
          /\ wtask' = [wtask EXCEPT ![w] = i]
    /\ UNCHANGED << pc, uploadVars, splitVars, hostnames, outcome, accessed,
                    finished, number_left, aggVars, output_folder, main_state, response,
                    flashed, buildVars >>

\* logic.py:82-210 run by a worker for its device: the tables are loaded
\* from the device's own segments, the records are built, and the artifact
\* is written; the worker reports the result (or the exception) to the map.
WorkerRun(w) ==
    /\ pc = "pool"
    /\ wtask[w] # 0
    /\ LET i == wtask[w]
           hostname == hostnames[i]
       IN  \E parsed \in SessionTables(MaxSessionRows) :
             LET T == LoadTables(split_folder[hostname], parsed)
                 r == ProcessSingleHostname(hostname, T)
             IN  /\ outcome' = [outcome EXCEPT
                                  ![i] = [raised |-> r.raised, value |-> r.value]]
                 /\ accessed' = [accessed EXCEPT
                                   ![i] = [reads |-> TaskReads(hostname),
                                           writes |-> TaskWrites(hostname, r)]]
                 /\ output_folder' =
                      IF r.wrote
                      THEN [f \in DOMAIN output_folder \cup {ArtifactName(hostname)} |->
                               IF f = ArtifactName(hostname) THEN r.sheet
                               ELSE output_folder[f]]
                      ELSE output_folder
                 /\ finished' = Append(finished, i)
                 /\ task' = [task EXCEPT ![i] = "done"]
                 /\ number_left' = number_left - 1
                 /\ wtask' = [wtask EXCEPT ![w] = 0]
    /\ UNCHANGED << pc, uploadVars, splitVars, hostnames, aggVars, main_state,
                    response, flashed, buildVars >>

\* A map that hands back as soon as one task has reported.
MapReadyFirst == number_left < Len(task) \/ Len(task) = 0

\* logic.py:230: pool.map returns (or raises) once every task has reported.
MapReady == number_left = 0

\* A map that hands back the values in the order the tasks finished.
MapResultsAsCompleted(values, order) ==
    [k \in DOMAIN order |-> values[order[k]].value]

\* logic.py:230: pool.map hands back the tasks' values in the order of the
\* task list, whatever order they finished in.
MapResults(values, order) == [i \in DOMAIN values |-> values[i].value]

\* logic.py:229-235 and app.py:80-82: pool.map hands back the values in
\* submission order, or re-raises a task's exception, which leaves
\* execute_main and is caught by the handler.
MapReturn ==
    /\ pc = "pool"
    /\ MapReady
    /\ IF \E i \in DOMAIN outcome : outcome[i].raised
       THEN /\ main_state' = "raised"
            /\ flashed' = << Flash("An error occurred during processing") >>
            /\ response' = "index"
            /\ pc' = "returned"
            /\ UNCHANGED << results, agg_i >>
       ELSE /\ results' = MapResults(outcome, finished)
            /\ agg_i' = 1
            /\ pc' = "aggregate"
            /\ UNCHANGED << main_state, flashed, response >>
    /\ UNCHANGED << uploadVars, splitVars, poolVars, all_device_data,
                    output_folder, buildVars >>

\* logic.py:236-243: one iteration of the read-back loop; a file that cannot
\* be read is reported and skipped.
AggRead ==
    /\ pc = "aggregate"
    /\ agg_i <= Len(results)
    /\ LET filename == results[agg_i]
       IN  all_device_data' =
             IF filename # None /\ filename \in DOMAIN output_folder
             THEN Append(all_device_data, ReadExcel(output_folder[filename]))
             ELSE all_device_data
    /\ agg_i' = agg_i + 1
    /\ UNCHANGED << pc, uploadVars, splitVars, poolVars, results,
                    output_folder, main_state, response, flashed, buildVars >>

\* logic.py:245-263 and app.py:84: with nothing read back execute_main
\* prints and returns; otherwise it writes the Final_Report.  Either way it
\* returns normally and the handler redirects to the results page.
AggFinish ==
    /\ pc = "aggregate"
    /\ agg_i > Len(results)
    /\ output_folder' =
          IF all_device_data = << >> THEN output_folder
          ELSE [f \in DOMAIN output_folder \cup {FINAL_REPORT} |->
                   IF f = FINAL_REPORT THEN Backfill(all_device_data)
                   ELSE output_folder[f]]
    /\ main_state' = "returned"
    /\ response' = "results"
    /\ pc' = "returned"
    /\ UNCHANGED << uploadVars, splitVars, poolVars, aggVars, flashed,
                    buildVars >>

Next ==
    \/ SaveUploads
    \/ SplitFile
    \/ SplitReturn
    \/ \E w \in Workers : WorkerTake(w)
    \/ \E w \in Workers : WorkerRun(w)
    \/ MapReturn
    \/ AggRead
    \/ AggFinish

Spec == Init /\ [][Next]_vars

\* ============================================ SpecSplit: the splitter
(* execute_split of either pipeline called twice on the same input and     *)
(* output directory.  The input directory holds A.txt, and may hold B.txt  *)
(* (complete, or lacking a command) or A.log; it is not changed between    *)
(* the calls, and is listed in the same order by both.                     *)
SplitInputs ==
    { [x \in S |-> IF x = << "A", "txt" >> THEN a
                   ELSE IF x = << "B", "txt" >> THEN b
                   ELSE CaptureText({}, "hdr")] :
        S \in { {<< "A", "txt" >>}, {<< "A", "txt" >>, << "B", "txt" >>},
                {<< "A", "txt" >>, << "A", "log" >>} },
        a \in SplitCaptures,
        b \in {CaptureText({}, "hdr"), CaptureText({required_commands[9]}, "hdr")} }

InitSplit ==
    /\ pc = "split"
    /\ pipeline \in {"nxos", "xe"}
    /\ input_folder \in SplitInputs
    /\ uploads = input_folder
    /\ dir_list \in Perms(DOMAIN input_folder)
    /\ filenames = Filenames(dir_list)
    /\ split_run = 1 /\ first_run = NoRun
    /\ error_messages = << >> /\ split_folder = EmptyFn
    /\ IdleMain
    /\ response = "none" /\ flashed = << >>
    /\ IdleRows

\* A call that goes on with the list it is given.
KeptMessages(old) == old

\* logic.py:26, logic_xe.py:16: every call starts with an empty list.
FreshMessages(old) == << >>

\* execute_split has returned (logic.py:69) or raised.
SplitEnded == pc = "split_raised" \/ (pc = "split" /\ filenames = << >>)

\* The first call has ended and execute_split is called again with the same
\* arguments (logic.py:26-28).
SplitAgain ==
    /\ SplitEnded
    /\ split_run = 1
    /\ first_run' = [split_folder |-> split_folder,
                     error_messages |-> error_messages,
                     raised |-> pc = "split_raised"]
    /\ pc' = "split"
    /\ error_messages' = FreshMessages(error_messages)
    /\ filenames' = Filenames(dir_list)
    /\ split_run' = 2
    /\ UNCHANGED << uploadVars, dir_list, split_folder, poolVars, aggVars,
                    output_folder, main_state, response, flashed, buildVars >>

NextSplit ==
    \/ SplitFile
    \/ SplitAgain

SpecSplit == InitSplit /\ [][NextSplit]_vars

\* ============================================ SpecAgg: the Aggregator
(* The aggregation stage started on drawn artifacts: pool.map has returned *)
(* one file name per device and each device's 'Final Data' sheet is in the *)
(* output folder.  The sheets are the consecutive pieces of a drawn row    *)
(* sequence, cut into at most MaxSheets devices.                           *)
AggDevice(d) == "D" \o ToString(d)

AggRecord(d, mac, ip) ==
    [Hostname |-> AggDevice(d), Port |-> "Eth1/1", IP |-> ip, Mac |-> mac,
     VLAN |-> "10"]

\* The ways to give each of n rows its device: the first row is device 1,
\* and each next row is the same device or the next one.
Cuts(n) ==
    {c \in [1..n -> 1..MaxSheets] :
        /\ c[1] = 1
        /\ \A i \in 1..(n - 1) : c[i + 1] \in {c[i], c[i] + 1}}

SheetOf(rows, c, d) ==
    LET idx == SelectSeq([i \in DOMAIN rows |-> i], LAMBDA i : c[i] = d)
    IN  [k \in DOMAIN idx |-> AggRecord(d, rows[idx[k]][1], rows[idx[k]][2])]

InitAgg ==
    /\ pc = "aggregate"
    /\ \E n \in 1..MaxAggRows :
          \E rows \in [1..n -> Macs \X (Ips \cup {None})], c \in Cuts(n) :
             LET k == c[n]
             IN  /\ hostnames = [d \in 1..k |-> AggDevice(d)]
                 /\ results = [d \in 1..k |-> ArtifactName(AggDevice(d))]
                 /\ output_folder =
                      [f \in {ArtifactName(AggDevice(d)) : d \in 1..k} |->
                          SheetOf(rows, c,
                                  CHOOSE d \in 1..k : ArtifactName(AggDevice(d)) = f)]
                 /\ task = [d \in 1..k |-> "done"]
                 /\ outcome = [d \in 1..k |->
                                 [raised |-> FALSE, value |-> ArtifactName(AggDevice(d))]]
                 /\ accessed = [d \in 1..k |->
                                  [reads |-> TaskReads(AggDevice(d)),
                                   writes |-> {OutputPath(AggDevice(d))}]]
                 /\ finished = [d \in 1..k |-> d]
    /\ wtask = [w \in Workers |-> 0] /\ number_left = 0
    /\ agg_i = 1 /\ all_device_data = << >>
    /\ main_state = "running"
    /\ uploads = EmptyFn /\ input_folder = EmptyFn
    /\ IdleSplit
    /\ response = "none" /\ flashed = << >>
    /\ IdleBuild

NextAgg ==
    \/ AggRead
    \/ AggFinish

SpecAgg == InitAgg /\ [][NextAgg]_vars

\* ================================== SpecBuild: the Port Record Builder
(* process_single_hostname for one device, started on drawn tables and     *)
(* stepped one MacAddressTable row at a time.                              *)
InitBuild ==
    /\ pc = "build"
    /\ pipeline = "nxos"
    /\ b_host = "A"
    /\ b_tables \in Tables(MaxRows)
    /\ b_index = 1
    /\ b_state = [result |-> << >>, raised |-> FALSE, done |-> FALSE,
                  value |-> None, wrote |-> FALSE]
    /\ uploads = EmptyFn /\ input_folder = EmptyFn
    /\ IdleSplit
    /\ IdleMain
    /\ response = "none" /\ flashed = << >>

\* logic.py:108-110, logic_xe.py:103-105
BuildEmpty ==
    /\ pc = "build"
    /\ ~b_state.done
    /\ Len(b_tables.mac_address) = 0
    /\ b_state' = [b_state EXCEPT
                     !.done = TRUE,
                     !.value = IF pipeline = "nxos" THEN EmptyMacReturn(b_host)
                               ELSE EmptyMacReturnXe]
    /\ UNCHANGED << pc, uploadVars, splitVars, poolVars, aggVars, output_folder,
                    main_state, response, flashed, pipeline, b_host, b_tables, b_index >>

\* logic.py:112-188: one iteration of the row loop; an exception leaves the
\* function.  logic_xe.py:108-178: the same with the exception caught.
BuildRow ==
    /\ pc = "build"
    /\ ~b_state.done
    /\ Len(b_tables.mac_address) > 0
    /\ b_index <= Len(b_tables.mac_address)
    /\ LET row == b_tables.mac_address[b_index]
           st0 == [result |-> b_state.result, raised |-> b_state.raised]
           st == IF pipeline = "nxos" THEN RowStep(b_host, row, b_tables, st0)
                 ELSE RowStepXe(b_host, row, b_tables, st0)
       IN  b_state' = [b_state EXCEPT !.result = st.result,
                                      !.raised = st.raised,
                                      !.done = st.raised]
    /\ b_index' = b_index + 1
    /\ UNCHANGED << pc, uploadVars, splitVars, poolVars, aggVars, output_folder,
                    main_state, response, flashed, pipeline, b_host, b_tables >>

\* logic.py:190-210, logic_xe.py:180-191: nothing is written for an empty result;
\* otherwise the artifact is written and its name returned.
BuildReturn ==
    /\ pc = "build"
    /\ ~b_state.done
    /\ Len(b_tables.mac_address) > 0
    /\ b_index > Len(b_tables.mac_address)
    /\ IF b_state.result = << >>
       THEN /\ b_state' = [b_state EXCEPT !.done = TRUE, !.value = None]
            /\ output_folder' = output_folder
       ELSE /\ b_state' = [b_state EXCEPT !.done = TRUE, !.wrote = TRUE,
                                          !.value = ArtifactName(b_host)]
            /\ output_folder' =
                 [f \in DOMAIN output_folder \cup {ArtifactName(b_host)} |->
                     IF f = ArtifactName(b_host) THEN b_state.result
                     ELSE output_folder[f]]
    /\ UNCHANGED << pc, uploadVars, splitVars, poolVars, aggVars, main_state,
                    response, flashed, pipeline, b_host, b_tables, b_index >>

NextBuild ==
    \/ BuildEmpty
    \/ BuildRow
    \/ BuildReturn

SpecBuild == InitBuild /\ [][NextBuild]_vars

\* ============================== SpecRecord: the synthesis of the fields
(* process_single_hostname of either dialect for one device, on a          *)
(* MacAddressTable of at most MaxRecordRows rows and every combination of  *)
(* the eight other tables being empty or filled.                           *)
InitRecord ==
    /\ pc = "build"
    /\ pipeline \in {"nxos", "xe"}
    /\ b_host = "A"
    /\ b_tables \in RecordTables(SeqsUpTo(IF pipeline = "nxos" THEN RecordMacRows
                                          ELSE RecordMacRowsXe, MaxRecordRows))
    /\ b_index = 1
    /\ b_state = [result |-> << >>, raised |-> FALSE, done |-> FALSE,
                  value |-> None, wrote |-> FALSE]
    /\ uploads = EmptyFn /\ input_folder = EmptyFn
    /\ IdleSplit
    /\ IdleMain
    /\ response = "none" /\ flashed = << >>

SpecRecord == InitRecord /\ [][NextBuild]_vars

\* ================================================================ claims
\* execute_split has returned to the handler.
SplitDone ==
    \/ pc = "split" /\ filenames = << >>
    \/ pc \in {"pool", "aggregate", "returned"}

FileName(x) == x[1] \o "." \o x[2]

\* The required commands whose text is on no line of the capture.
RawMissing(data) ==
    {c \in RequiredSet : \A i \in DOMAIN data : data[i].cmd # c}

DeviceArtifacts == DOMAIN output_folder \ {FINAL_REPORT}

AnyTaskRaised == \E i \in DOMAIN outcome : outcome[i].raised

(* C1: the aggregation stage never starts while a dispatched device task   *)
(* is still queued or running: whenever execute_main is in the read-back   *)
(* loop, has read a frame, or has written the Final_Report, every task is  *)
(* done and every worker is idle.                                          *)
C1_BarrierBeforeAggregation ==
    (pc = "aggregate" \/ all_device_data # << >>
        \/ FINAL_REPORT \in DOMAIN output_folder)
    => /\ \A i \in DOMAIN task : task[i] = "done"
       /\ \A w \in Workers : wtask[w] = 0

\* C1 witness: two device tasks were dispatched and a first frame was read.
C1_Witness ==
    /\ pc = "aggregate" /\ Len(task) = 2 /\ Len(all_device_data) >= 1

(* C2 (as claimed): a task's exception is contained: when the request has  *)
(* ended, some task raised and another device wrote its artifact, then     *)
(* execute_main returned normally, a result was collected for every        *)
(* device, and the Final_Report was written over the devices that          *)
(* succeeded.                                                              *)
C2_FaultContained ==
    (pc = "returned" /\ AnyTaskRaised /\ DeviceArtifacts # {})
    => /\ main_state = "returned"
       /\ Len(results) = Len(hostnames)
       /\ FINAL_REPORT \in DOMAIN output_folder

(* C3 (as claimed): when execute_split returns with at least one message,  *)
(* no segment directory or file has been written for any device.           *)
C3_NoSegmentsOnAnyError ==
    (SplitDone /\ error_messages # << >>) => DOMAIN split_folder = {}

(* C3 (amended): when execute_split returns with at least one message, the *)
(* devices with segments are exactly those whose own capture <name>.txt    *)
(* holds all nine markers, and nothing is parsed: execute_main is not run. *)
C3_SegmentsOnlyForCompleteCaptures ==
    (SplitDone /\ error_messages # << >>)
    => /\ \A d \in Names :
            d \in DOMAIN split_folder
            <=> /\ << d, "txt" >> \in DOMAIN input_folder
                /\ RawMissing(input_folder[<< d, "txt" >>]) = {}
       /\ main_state = "not_called"

\* C3 witness: one capture failed validation and another device was split.
C3_Witness ==
    /\ SplitDone /\ error_messages # << >> /\ DOMAIN split_folder # {}

(* C4 (as claimed): when execute_split has returned, every capture file of *)
(* the input directory that lacks a marker has exactly one message, which  *)
(* names the file and exactly its missing commands, and the device has no  *)
(* segments.                                                               *)
C4_MessagePerAffectedFile ==
    SplitDone
    => \A x \in DOMAIN input_folder :
          RawMissing(input_folder[x]) # {}
          => /\ Cardinality({i \in DOMAIN error_messages :
                    error_messages[i].file = FileName(x)}) = 1
             /\ \A i \in DOMAIN error_messages :
                    error_messages[i].file = FileName(x)
                    => Range(error_messages[i].missing) = RawMissing(input_folder[x])
             /\ x[1] \notin DOMAIN split_folder

(* C5: whenever execute_split has collected a message, execute_main is not *)
(* invoked and the output directory stays empty; execute_main is invoked   *)
(* only after execute_split has returned an empty list.                    *)
C5_NoMainAfterValidationError ==
    /\ error_messages # << >>
       => main_state = "not_called" /\ DOMAIN output_folder = {}
    /\ main_state # "not_called" => SplitDone /\ error_messages = << >>

\* C5 witness: the request ended on the index page with validation messages.
C5_Witness ==
    /\ pc = "returned" /\ error_messages # << >> /\ response = "index"
    /\ flashed = error_messages

\* C4, for the files execute_split opens: the same statement for every
\* <name>.txt whose name is not also uploaded as <name>.log.
C4_TxtCaptures ==
    SplitDone
    => \A x \in DOMAIN input_folder :
          ( /\ x[2] = "txt"
            /\ << x[1], "log" >> \notin DOMAIN input_folder
            /\ RawMissing(input_folder[x]) # {} )
          => /\ Cardinality({i \in DOMAIN error_messages :
                    error_messages[i].file = FileName(x)}) = 1
             /\ \A i \in DOMAIN error_messages :
                    error_messages[i].file = FileName(x)
                    => Range(error_messages[i].missing) = RawMissing(input_folder[x])
             /\ x[1] \notin DOMAIN split_folder

(* C6 (as claimed): once execute_main has ended for a session with at      *)
(* least one device, it has raised to its caller exactly when the parallel *)
(* phase produced no per-device artifact; then there is no Final_Report,   *)
(* and otherwise there is one and no error.                                *)
C6_FailsIffNoArtifacts ==
    (pc = "returned" /\ main_state # "not_called" /\ Len(hostnames) >= 1)
    => /\ main_state = "raised" <=> DeviceArtifacts = {}
       /\ DeviceArtifacts = {} => FINAL_REPORT \notin DOMAIN output_folder
       /\ DeviceArtifacts # {}
          => FINAL_REPORT \in DOMAIN output_folder /\ response = "results"

(* C7 (as claimed): every non-null result that pool.map handed back names  *)
(* an artifact the task wrote, so the read-back loop never looks for a     *)
(* file that is not there.                                                 *)
C7_NonNullResultHasArtifact ==
    \A i \in DOMAIN results :
        results[i] # None => results[i] \in DOMAIN output_folder

\* The rows of the concatenated table before the backfill and of the
\* Final_Report after it.
BeforeFill == Concat(all_device_data)

AfterFill == output_folder[FINAL_REPORT]

\* The rows with MAC mac that had an IP address before the backfill.
Writers(mac) ==
    {j \in DOMAIN BeforeFill :
        BeforeFill[j].Mac = mac /\ ~IsNa(BeforeFill[j].IP)}

C9_BackfillExact ==
    FINAL_REPORT \in DOMAIN output_folder
    => /\ Len(AfterFill) = Len(BeforeFill)
       /\ \A i \in DOMAIN BeforeFill :
            /\ [AfterFill[i] EXCEPT !.IP = None] = [BeforeFill[i] EXCEPT !.IP = None]
            /\ IsNa(AfterFill[i].IP) <=> Writers(BeforeFill[i].Mac) = {}
            /\ ~IsNa(BeforeFill[i].IP) => AfterFill[i].IP = BeforeFill[i].IP

\* C9 witness: a row of one device was filled from a row of another device.
C9_Witness ==
    /\ FINAL_REPORT \in DOMAIN output_folder
    /\ \E i, j \in DOMAIN BeforeFill :
          /\ BeforeFill[i].Hostname # BeforeFill[j].Hostname
          /\ BeforeFill[i].Mac = BeforeFill[j].Mac
          /\ IsNa(BeforeFill[i].IP) /\ ~IsNa(BeforeFill[j].IP)
          /\ AfterFill[i].IP = BeforeFill[j].IP

\* The MacAddressTable rows whose port does not hold "vPC", in table order.
KeptRows ==
    SelectSeq(b_tables.mac_address,
              LAMBDA r : \A i \in 1..(Len(r.PORTS) - 2) : SubSeq(r.PORTS, i, i + 2) # "vPC")

(* C10: when the device task ends without a row fault, the records are the *)
(* order-preserving image of the rows whose port does not hold "vPC": one  *)
(* record per such row, with the row's MAC, port and VLAN, and the         *)
(* artifact's sheet, when written, holds exactly these records.            *)
C10_RecordsAreKeptRows ==
    (b_state.done /\ ~b_state.raised /\ Len(b_tables.mac_address) > 0)
    => /\ Len(b_state.result) = Len(KeptRows)
       /\ \A i \in DOMAIN KeptRows :
            /\ b_state.result[i].Mac = KeptRows[i].MAC_ADDRESS
            /\ b_state.result[i].Port = KeptRows[i].PORTS
            /\ b_state.result[i].VLAN = KeptRows[i].VLAN_ID
       /\ b_state.wrote => output_folder[ArtifactName(b_host)] = b_state.result

\* C10 witness: a table with a vPC row and a kept row was written out.
C10_Witness ==
    /\ b_state.done /\ b_state.wrote
    /\ Len(KeptRows) >= 1 /\ Len(KeptRows) < Len(b_tables.mac_address)

\* The rows the loop of the dialect does not pass over, in table order.
ProcessedRows ==
    SelectSeq(b_tables.mac_address,
              LAMBDA r : IF pipeline = "nxos" THEN ~Excluded(r) ELSE ~SkippedXe(r))

\* The processed rows whose record synthesis does not fault.
SoundRows == SelectSeq(ProcessedRows, LAMBDA r : ~r.raises)

\* The row loop has ended for a non-empty MacAddressTable.
LoopEnded == b_state.done /\ Len(b_tables.mac_address) > 0

(* C11 (as claimed): a fault in the record synthesis of one row drops only *)
(* that row: when the device task has ended, it has not raised, there is   *)
(* one record per processed row that did not fault, in table order, and    *)
(* the task returned its artifact's name when there is a record.           *)
C11_RowFaultDropsOnlyRow ==
    LoopEnded
    => /\ ~b_state.raised
       /\ Len(b_state.result) = Len(SoundRows)
       /\ \A i \in DOMAIN b_state.result :
             b_state.result[i].Mac = SoundRows[i].MAC_ADDRESS
       /\ b_state.result # << >> => b_state.value = ArtifactName(b_host)

(* C11, IOS-XE half: the same statement for the tasks of logic_xe.py.      *)
C11_XeRowFaultDropsOnlyRow ==
    pipeline = "xe" => C11_RowFaultDropsOnlyRow

\* The eight tables other than the MacAddressTable.
OtherTables == DOMAIN SegmentOfTable \ {"mac_address"}

\* The not-found values of the fields of record r that are read from table t.
NotFound(r, t) ==
    CASE t = "inventory" -> r.SerialNumber = None
      [] t = "ip_arp" -> r.IP = None
      [] t = "interface_description" -> r.Description = None
      [] t = "port_channel_summary" -> r.MemberPO = ""
      [] t = "interface_status" -> r.SFP = None /\ r.TrunkAccess = ""
      [] t = "cdp_neighbors" ->
            /\ r.CdpNeighborHostname = None /\ r.CdpNeighborPlatform = None
            /\ r.CdpNeighborPort = None
      [] t = "lldp_neighbors" ->
            r.LldpNeighborHostname = None /\ r.LldpNeighborPort = None
      [] t = "interface_trunk" -> r.AllowedVLAN = ""

(* C12: whichever of the eight other tables are empty, the row loop of     *)
(* either dialect ends without raising, with one record for every          *)
(* processed row that has no fault of its own, and in every record each    *)
(* field read from an empty table has its not-found value: null, or the    *)
(* empty string for Member PO, Allowed VLAN and Trunk/Access.              *)
C12_EmptyTablesNotFound ==
    /\ LoopEnded
       => /\ ~b_state.raised
          /\ Len(b_state.result) = Len(SoundRows)
    /\ \A i \in DOMAIN b_state.result :
          \A t \in OtherTables :
             b_tables[t] = << >> => NotFound(b_state.result[i], t)

\* C12 witness: a record was written for a device all of whose eight other
\* tables are empty.
C12_Witness ==
    /\ LoopEnded /\ b_state.wrote
    /\ \A t \in OtherTables : b_tables[t] = << >>
    /\ Len(b_state.result) = Len(b_tables.mac_address)

\* The port of record r is outside the port-channel branch and holds "Vlan".
VlanPort(r) == ~IsPo(r.Port) /\ Contains(r.Port, "Vlan")

(* C13 (as claimed): in every record the cable type is unknown ("???")     *)
(* exactly when no transceiver type resolved (none found, or an empty      *)
(* cell) or the port is a non-port-channel port that holds "Vlan",         *)
(* whatever its transceiver type; otherwise it is "UTP" exactly when the   *)
(* transceiver type holds "T", and "Fiber" in every other case.            *)
C13_CableType ==
    \A i \in DOMAIN b_state.result :
        LET r == b_state.result[i]
        IN  r.TipeKabel =
                IF ~Truthy(r.SFP) \/ VlanPort(r) THEN "???"
                ELSE IF Contains(r.SFP, "T") THEN "UTP"
                ELSE "Fiber"

\* The first CDP row of each member interface of record r's port-channel
\* that has one, in member order.
RECURSIVE FirstCdpRows(_)
FirstCdpRows(members) ==
    IF members = << >> THEN << >>
    ELSE LET rows == SelectSeq(b_tables.cdp_neighbors,
                               LAMBDA c : c.LOCAL_INTERFACE = Head(members))
         IN  (IF rows = << >> THEN << >> ELSE << rows[1] >>)
             \o FirstCdpRows(Tail(members))

MemberCdp(r) ==
    IF r.MemberPO = "" THEN << >> ELSE FirstCdpRows(Split(r.MemberPO, ", "))

\* The NX-OS records of port-channel ports with a CDP row on some member.
PoWithCdp ==
    {i \in DOMAIN b_state.result :
        /\ pipeline = "nxos"
        /\ IsPo(b_state.result[i].Port)
        /\ MemberCdp(b_state.result[i]) # << >>}

(* C14 (as claimed): in an NX-OS record of a port-channel port, the CDP    *)
(* neighbor hostname and platform are those of the first member interface, *)
(* in member order, that has a CDP row; a later member with another        *)
(* neighbor does not replace them.                                         *)
C14_FirstMemberNeighbor ==
    \A i \in PoWithCdp :
        LET r == b_state.result[i]
        IN  /\ r.CdpNeighborHostname = MemberCdp(r)[1].NEIGHBOR_NAME
            /\ r.CdpNeighborPlatform = MemberCdp(r)[1].PLATFORM

\* The neighbor interfaces of the members' CDP rows, in member order.
MemberCdpPorts(r) ==
    [k \in DOMAIN MemberCdp(r) |-> MemberCdp(r)[k].NEIGHBOR_INTERFACE]

(* C15 (as claimed): in an NX-OS record of a port-channel port, the CDP    *)
(* neighbor port is the comma-separated list of the distinct neighbor      *)
(* interfaces of the members' CDP rows, each listed once, also when two    *)
(* members report the same neighbor interface.                             *)
C15_DistinctNeighborPorts ==
    \A i \in PoWithCdp :
        LET r == b_state.result[i]
        IN  r.CdpNeighborPort = Join(Unique(MemberCdpPorts(r)), ", ")

(* C16 (as claimed): every record emitted by either dialect has a          *)
(* non-empty Port: a row whose port identifier is the empty string gives   *)
(* no record.                                                              *)
C16_PortNeverEmpty ==
    \A i \in DOMAIN b_state.result : b_state.result[i].Port # ""

(* C16, IOS-XE half: the same statement for the records of logic_xe.py.    *)
C16_XePortNeverEmpty ==
    pipeline = "xe" => C16_PortNeverEmpty

\* The VLAN_ID cells of the InterfaceStatusTable rows for a port.
StatusVlans(port) ==
    LET rows == SelectSeq(b_tables.interface_status, LAMBDA x : x.PORT = port)
    IN  [k \in DOMAIN rows |-> rows[k].VLAN_ID]

TrunkOrRouted(v) == Contains(v, "trunk") \/ Contains(v, "routed")

(* C17: in every record Trunk/Access is "Access" exactly when the          *)
(* InterfaceStatusTable has a row for the port whose VLAN_ID is non-empty  *)
(* and holds neither "trunk" nor "routed"; it is the raw VLAN_ID when that *)
(* holds "trunk" or "routed"; and it is the empty string when no row is    *)
(* for the port, which includes an empty table.                            *)
C17_TrunkOrAccess ==
    \A i \in DOMAIN b_state.result :
        LET r == b_state.result[i]
            cells == StatusVlans(r.Port)
        IN  /\ r.TrunkAccess = "Access"
               <=> /\ cells # << >> /\ cells[1] # ""
                   /\ ~TrunkOrRouted(cells[1])
            /\ (cells # << >> /\ TrunkOrRouted(cells[1]))
               => r.TrunkAccess = cells[1]
            /\ cells = << >> => r.TrunkAccess = ""

\* C17 witness: a record of an access port, whose raw VLAN_ID is "10".
C17_Witness ==
    \E i \in DOMAIN b_state.result :
        /\ b_state.result[i].TrunkAccess = "Access"
        /\ StatusVlans(b_state.result[i].Port) = << "10" >>

\* The commands of the "<hostname># show <command>" headers left in the text
\* of <d>.txt once the echoed commands and the lone "!" lines are removed.
HeaderCommands(d) ==
    LET data == input_folder[<< d, "txt" >>]
    IN  {data[i].cmd : i \in {k \in DOMAIN data : data[k].kind = "hdr"}}

\* The number of such headers, counting repetitions.
HeaderCount(d) ==
    LET data == input_folder[<< d, "txt" >>]
    IN  Cardinality({k \in DOMAIN data : data[k].kind = "hdr"})

(* C18: for every NX-OS capture with all nine markers, the device's        *)
(* segment files are exactly one per distinct header of the stripped text, *)
(* named by the command with its spaces replaced by underscores            *)
(* (show_<command>.txt), each starting with a header of its command; a     *)
(* header that occurs more than once gives a single segment.               *)
C18_SegmentPerDistinctHeader ==
    pipeline = "nxos"
    => \A d \in DOMAIN split_folder :
          /\ DOMAIN split_folder[d]
                = {Replace(c, " ", "_") \o ".txt" : c \in HeaderCommands(d)}
          /\ Cardinality(DOMAIN split_folder[d]) = Cardinality(HeaderCommands(d))
          /\ \A c \in HeaderCommands(d) :
                LET content == split_folder[d][Replace(c, " ", "_") \o ".txt"]
                IN  content[1] = Line("hdr", c)

\* C18 witness: A.txt was split and has a repeated header, a header of a
\* command that is not required, and fewer segments than headers.
C18_Witness ==
    /\ pipeline = "nxos" /\ "A" \in DOMAIN split_folder
    /\ "show version" \in HeaderCommands("A")
    /\ Cardinality(DOMAIN split_folder["A"]) = 10
    /\ HeaderCount("A") = 11

(* C19: execute_split is idempotent: when a second call on the same input  *)
(* and output directory has returned, the segment directories, their       *)
(* files and every file's content are the same as after the first call,    *)
(* and the returned error list is the same.                                *)
C19_SplitIdempotent ==
    (split_run = 2 /\ SplitEnded)
    => /\ split_folder = first_run.split_folder
       /\ error_messages = first_run.error_messages
       /\ first_run.raised = (pc = "split_raised")

\* C19 witness: the second call has returned; the first had written
\* segments for one device and returned a message for another.
C19_Witness ==
    /\ split_run = 2 /\ pc = "split" /\ filenames = << >>
    /\ first_run.split_folder # EmptyFn /\ first_run.error_messages # << >>

\* C19 witness, IOS-XE: the second call of logic_xe.py's execute_split has
\* returned, and the first had written segments.
C19_WitnessXe ==
    /\ pipeline = "xe" /\ split_run = 2 /\ pc = "split" /\ filenames = << >>
    /\ "show_interface_status.txt" \in DOMAIN first_run.split_folder["A"]

\* The tasks that have run.
RanTasks == {i \in DOMAIN accessed : task[i] = "done"}

(* C20: the device tasks share no mutable state.  Of the session's files a *)
(* task reads only segment files of its own device's directory (the other  *)
(* files it reads are the program's TextFSM templates, which no task       *)
(* writes), and it writes only its own <hostname>.xlsx; so in every        *)
(* interleaving no file is written by two tasks and no task reads a file   *)
(* another task writes.                                                    *)
C20_TasksShareNoFiles ==
    \A i \in DOMAIN accessed :
       /\ \A p \in accessed[i].reads :
             \/ p[1] = "split" /\ p[2] = hostnames[i]
             \/ p[1] = "templates"
       /\ accessed[i].writes \subseteq {<< "output", "", hostnames[i] \o ".xlsx" >>}
       /\ \A j \in DOMAIN accessed \ {i} :
             /\ accessed[i].writes \cap accessed[j].writes = {}
             /\ accessed[i].reads \cap accessed[j].writes = {}
             /\ accessed[i].writes \cap accessed[j].reads = {}

\* C20 witness: the pool is still at work, one task has read its segments
\* and written its artifact, and another task is running on a worker.
C20_Witness ==
    /\ pc = "pool" /\ Len(task) = 2
    /\ \E i, j \in DOMAIN task :
          /\ i # j /\ task[i] = "done" /\ task[j] = "running"
          /\ accessed[i].writes # {} /\ accessed[i].reads # {}

\* C20 witness, both written: two tasks have run and each has written an
\* artifact.
C20_WitnessBoth ==
    /\ Cardinality(RanTasks) = 2
    /\ \A i \in RanTasks : accessed[i].writes # {}

\* The three CDP fields of record r all have the value v.
CdpFields(r, v) ==
    /\ r.CdpNeighborHostname = v /\ r.CdpNeighborPlatform = v
    /\ r.CdpNeighborPort = v

\* The NX-OS records of port-channel ports for which no neighbor resolved:
\* no member of the bundle has a CDP row.
PoWithoutCdp ==
    {i \in DOMAIN b_state.result :
        /\ pipeline = "nxos"
        /\ IsPo(b_state.result[i].Port)
        /\ MemberCdp(b_state.result[i]) = << >>}

\* The NX-OS records of the other ports that have no CDP row of their own.
PortWithoutCdp ==
    {i \in DOMAIN b_state.result :
        /\ pipeline = "nxos"
        /\ ~IsPo(b_state.result[i].Port)
        /\ \A k \in DOMAIN b_tables.cdp_neighbors :
              b_tables.cdp_neighbors[k].LOCAL_INTERFACE # b_state.result[i].Port}

(* C21 (as claimed): in an NX-OS record of a port-channel port for which   *)
(* no CDP neighbor resolved, the three CDP fields are the empty string,    *)
(* whatever the reason, an empty CdpNeighborsTable included; they are null *)
(* only for the other ports without a matching CDP row.                    *)
C21_PoSentinelWhateverReason ==
    \A i \in DOMAIN b_state.result :
        pipeline = "nxos"
        => /\ i \in PoWithoutCdp => CdpFields(b_state.result[i], "")
           /\ CdpFields(b_state.result[i], None) => i \in PortWithoutCdp

(* C21 (amended): in an NX-OS record, the three CDP fields are null when   *)
(* the CdpNeighborsTable is empty, for port-channels too, and when the     *)
(* port is not a port-channel and has no CDP row; they are the empty       *)
(* string when the table has rows, the port is a port-channel and no       *)
(* member of it has a CDP row (no members resolved, or members without a   *)
(* row); in no other case are they null or empty.                          *)
C21_PoSentinel ==
    \A i \in DOMAIN b_state.result :
        pipeline = "nxos"
        => LET r == b_state.result[i]
               empty == b_tables.cdp_neighbors = << >>
           IN  /\ CdpFields(r, None) <=> (empty \/ i \in PortWithoutCdp)
               /\ CdpFields(r, "") <=> (~empty /\ i \in PoWithoutCdp)

\* C21 witness: with a CdpNeighborsTable that has rows, a record of a
\* port-channel whose member has no CDP row carries the empty strings.
C21_Witness ==
    /\ pipeline = "nxos" /\ b_tables.cdp_neighbors # << >>
    /\ \E i \in PoWithoutCdp :
          /\ b_state.result[i].Port = "Po4"
          /\ b_state.result[i].MemberPO = "Eth1/5"
          /\ CdpFields(b_state.result[i], "")

\* C21 witness, empty table: a record of a port-channel with members carries
\* nulls because the CdpNeighborsTable is empty.
C21_WitnessEmptyTable ==
    /\ pipeline = "nxos" /\ b_tables.cdp_neighbors = << >>
    /\ \E i \in PoWithoutCdp :
          /\ b_state.result[i].MemberPO # ""
          /\ CdpFields(b_state.result[i], None)

\* pool.map has handed back the results.
Collected == pc = "aggregate" \/ (pc = "returned" /\ main_state = "returned")

\* The position of the device named h in the device list.
DevicePosition(h) == CHOOSE i \in DOMAIN hostnames : hostnames[i] = h

\* The rows are grouped by device, in the order of the device list.
InDeviceOrder(rows) ==
    \A a, b \in DOMAIN rows :
        a < b => /\ rows[a].Hostname \in Range(hostnames)
                 /\ rows[b].Hostname \in Range(hostnames)
                 /\ DevicePosition(rows[a].Hostname)
                       <= DevicePosition(rows[b].Hostname)

(* C22: the results collected by the dispatcher are in task-submission     *)
(* order whatever order the workers finished in: the i-th result is what   *)
(* the task of the i-th device of the device list returned (its            *)
(* <hostname>.xlsx or nothing), so the frames read back and the rows of    *)
(* the Final_Report are grouped by device in the order of the device list, *)
(* rows of different devices never interleaved.                            *)
C22_ResultsInSubmissionOrder ==
    Collected
    => /\ Len(results) = Len(hostnames)
       /\ \A i \in DOMAIN results :
             /\ results[i] = outcome[i].value
             /\ results[i] \in {None, hostnames[i] \o ".xlsx"}
       /\ InDeviceOrder(Concat(all_device_data))
       /\ FINAL_REPORT \in DOMAIN output_folder
             => InDeviceOrder(output_folder[FINAL_REPORT])

\* C22 witness: the second task finished before the first, both wrote an
\* artifact, and the Final_Report has the rows of both devices.
C22_Witness ==
    /\ pc = "returned" /\ finished = << 2, 1 >>
    /\ results = << hostnames[1] \o ".xlsx", hostnames[2] \o ".xlsx" >>
    /\ FINAL_REPORT \in DOMAIN output_folder
    /\ {output_folder[FINAL_REPORT][k].Hostname :
            k \in DOMAIN output_folder[FINAL_REPORT]} = Range(hostnames)

(* C23 (as claimed): for every NX-OS capture that passes validation, the   *)
(* device's segment directory holds, once the capture is split, a segment  *)
(* file for each of the nine required commands, the nine files the Table   *)
(* Loader reads: a command found by the substring check on the raw text    *)
(* was also found as a prompt header by the splitter.                      *)
C23_ValidatedHasNineSegments ==
    \A d \in DOMAIN split_folder :
        pipeline = "nxos"
        => \A t \in DOMAIN SegmentOfTable :
              SegmentOfTable[t] \in DOMAIN split_folder[d]

(* C24 (as claimed): once execute_split has returned, every capture file   *)
(* the upload handler accepted and saved (.txt or .log) is accounted for:  *)
(* either a returned error message names the file, or the segment          *)
(* directory of its device exists; no accepted file is skipped silently.   *)
C24_EveryAcceptedFileAccounted ==
    (pc \in {"split", "pool", "aggregate", "returned"} /\ filenames = << >>)
    => \A x \in DOMAIN input_folder :
          \/ \E i \in DOMAIN error_messages :
                error_messages[i].file = FileName(x)
          \/ x[1] \in DOMAIN split_folder

(* C24, the .txt captures: once execute_split has returned, every saved    *)
(* <name>.txt has a returned message naming it or a segment directory.     *)
C24_TxtAccounted ==
    (pc \in {"split", "pool", "aggregate", "returned"} /\ filenames = << >>)
    => \A x \in DOMAIN input_folder :
          x[2] = "txt"
          => \/ \E i \in DOMAIN error_messages :
                   error_messages[i].file = FileName(x)
             \/ x[1] \in DOMAIN split_folder

====
